---- MODULE Spec2Model ----
(***************************************************************************)
(* TagIteratorAsync (src/src/tag_iterator_async.rs): the incremental EBML  *)
(* tag reader.  The iterator owns a byte source `read`, a byte window      *)
(* `buf`, the running `offset` and the open-container stack `tag_stack`.   *)
(* One call of next() is one action; the byte source may hand its bytes    *)
(* over in chunks of any size, which read_exact() loops over.              *)
(***************************************************************************)
EXTENDS Integers, Sequences, FiniteSets, TLC

VARIABLES
    input,      \* the bytes the source holds at construction (never changes)
    whole,      \* what the same calls return when the source delivers `input` at once
    read,       \* TagIteratorAsync.read: the bytes the source has not delivered yet
    buf,        \* TagIteratorAsync.buf
    offset,     \* TagIteratorAsync.offset
    tag_stack,  \* TagIteratorAsync.tag_stack (top = last element)
    results,    \* what the direct calls of next() returned, in order
    trail,      \* per direct call: offset and stack before and after it
    items,      \* what the stream made by into_stream() yielded, in order
    mode        \* "direct": owned by the caller, "stream": moved into the stream,
                \* "ended": the stream returned Ready(None)

vars == <<input, whole, read, buf, offset, tag_stack, results, trail, items, mode>>

-----------------------------------------------------------------------------
(* Bounds of the model *)

MaxFrags == 3   \* body fragments an input is built from
MaxCalls == 7   \* calls of next() (direct or through the stream) per run
MaxChunk == 8   \* largest number of bytes the source hands over per poll_read

-----------------------------------------------------------------------------
(* The example specification TSpec: two masters and one unsigned-int leaf.  *)
(* Every other identifier is an unknown (Binary/raw) tag.                   *)

MasterA == 131      \* 0x83
MasterB == 130      \* 0x82
UIntLeaf == 129     \* 0x81

get_tag_data_type(tag_id) ==
    IF tag_id \in {MasterA, MasterB} THEN "Master"
    ELSE IF tag_id = UIntLeaf THEN "UnsignedInt"
    ELSE "Binary"

\* parent.is_child(tag_id): A holds B and the leaf, B holds nothing
is_child(parent_id, tag_id) ==
    parent_id = MasterA /\ tag_id \in {MasterB, UIntLeaf}

-----------------------------------------------------------------------------
(* Values *)

Tag(kind, id, num, data) ==
    [kind |-> kind, id |-> id, num |-> num, data |-> data, msg |-> ""]

get_master_tag(tag_id, which) == Tag(which, tag_id, 0, <<>>)
get_unsigned_int_tag(tag_id, val) == Tag("UnsignedInt", tag_id, val, <<>>)
get_raw_tag(tag_id, data) == Tag("Binary", tag_id, 0, data)

Failure(kind, msg) ==
    [kind |-> kind, id |-> 0, num |-> 0, data |-> <<>>, msg |-> msg]

EndOfSequence == Failure("None", "")

TagKinds == {"Start", "End", "UnsignedInt", "Binary"}

Known(n) == [known |-> TRUE, n |-> n]
Unknown == [known |-> FALSE, n |-> 0]

EndTag(tag, size, start) ==
    [type |-> "EndTag", tag |-> tag, size |-> size, start |-> start]
NextTag(tag) ==
    [type |-> "NextTag", tag |-> tag, size |-> Unknown, start |-> 0]

into_inner(entry) == entry.tag

Zeros(n) == [i \in 1..n |-> 0]
Min(a, b) == IF a < b THEN a ELSE b
Last(s) == s[Len(s)]
Front(s) == SubSeq(s, 1, Len(s) - 1)

-----------------------------------------------------------------------------
(* tools: VINT and payload decoding *)

VintLength(b) ==
    CASE b >= 128 -> 1
      [] b >= 64 -> 2
      [] b >= 32 -> 3
      [] b >= 16 -> 4
      [] b >= 8 -> 5
      [] b >= 4 -> 6
      [] b >= 2 -> 7
      [] OTHER -> 8

RECURSIVE BigEndian(_, _)
BigEndian(acc, bytes) ==
    IF bytes = <<>> THEN acc
    ELSE BigEndian(acc * 256 + Head(bytes), Tail(bytes))

\* the value of the VINT of `length` bytes at the front of the buffer, if it
\* is all there
vint_of(buffer, length) ==
    IF length > Len(buffer) THEN [st |-> "none", value |-> 0, length |-> 0]
    ELSE [st |-> "some",
          value |-> BigEndian(buffer[1] - 2 ^ (8 - length), SubSeq(buffer, 2, length)),
          length |-> length]

\* tools::read_vint: decodes the VINT at the front of the buffer, consumes nothing
read_vint(buffer) ==
    IF buffer = <<>> THEN [st |-> "none", value |-> 0, length |-> 0]
    ELSE IF buffer[1] = 0 THEN [st |-> "err", value |-> 0, length |-> 0]
    ELSE vint_of(buffer, VintLength(buffer[1]))

\* value.into(): all one-bits across the encoded length is the Unknown sentinel
ebml_size(value, length) ==
    IF value = 2 ^ (7 * length) - 1 THEN Unknown ELSE Known(value)

\* tools::arr_to_u64: big-endian, at most 8 bytes, the empty array is 0
arr_to_u64(data) ==
    IF Len(data) > 8 THEN [ok |-> FALSE, val |-> 0]
    ELSE [ok |-> TRUE, val |-> BigEndian(0, data)]

-----------------------------------------------------------------------------
(* The byte source *)

\* AsyncRead::poll_read on a source that hands over at most `chunk` bytes:
\* the number of bytes written to a destination of n bytes
\* in place of a byte of the source: the point where its poll fails with an
\* error other than UnexpectedEof
Fault == 256

\* how many of the next m bytes the source delivers before it fails
Sound(src, m) ==
    IF \A j \in 1..m : src[j] # Fault THEN m
    ELSE (CHOOSE k \in 1..m :
              src[k] = Fault /\ \A j \in 1..(k - 1) : src[j] # Fault) - 1

poll_read(src, n, chunk) == Sound(src, Min(Min(n, chunk), Len(src)))

\* TagIteratorError::ReadError { source }
ReadError == Failure("ReadError", "source")

\* the bytes of one poll in front of what the later polls brought
polled(head, r) ==
    [got |-> head \o r.got, src |-> r.src, eof |-> r.eof, io |-> r.io]

\* read_exact with the retry loop left out: one poll, a short read taken as the end
read_once(src, n, chunk) ==
    [got |-> SubSeq(src, 1, poll_read(src, n, chunk)),
     src |-> SubSeq(src, poll_read(src, n, chunk) + 1, Len(src)),
     eof |-> poll_read(src, n, chunk) < n,
     io |-> FALSE]

\* AsyncReadExt::read_exact: polls until n bytes are in; 0 bytes is UnexpectedEof.
\* The bytes read before the end stay written in the destination.
RECURSIVE read_exact(_, _, _)
read_exact(src, n, chunk) ==
    IF n = 0 THEN [got |-> <<>>, src |-> src, eof |-> FALSE, io |-> FALSE]
    ELSE IF src # <<>> /\ Head(src) = Fault
    THEN [got |-> <<>>, src |-> src, eof |-> FALSE, io |-> TRUE]
    ELSE IF poll_read(src, n, chunk) = 0
    THEN [got |-> <<>>, src |-> src, eof |-> TRUE, io |-> FALSE]
    ELSE polled(SubSeq(src, 1, poll_read(src, n, chunk)),
                read_exact(SubSeq(src, poll_read(src, n, chunk) + 1, Len(src)),
                           n - poll_read(src, n, chunk), chunk))

-----------------------------------------------------------------------------
(* TagIteratorAsync: `self` is [read, buf, offset, tag_stack] *)

new(src) == [read |-> src, buf |-> <<>>, offset |-> 0, tag_stack |-> <<>>]

current_offset(self) == self.offset

advance(self, length) ==
    [self EXCEPT !.offset = @ + length,
                 !.buf = SubSeq(@, length + 1, Len(@))]

advance_get(self, length) ==
    [self |-> [self EXCEPT !.offset = @ + length,
                           !.buf = SubSeq(@, length + 1, Len(@))],
     data |-> SubSeq(self.buf, 1, length)]

\* lines 60-72: the buffer was grown to `len` with zeros before the read r;
\* what the source did not fill stays in the buffer as zeros. `io` is the
\* Err(ReadError) of line 67, `ok` the bool of lines 65 and 74
extended(self, len, r) ==
    [self |-> [self EXCEPT !.buf = @ \o r.got \o Zeros(len - Len(@) - Len(r.got)),
                           !.read = r.src],
     ok |-> ~r.eof /\ ~r.io,
     io |-> r.io]

ensure_data_read(self, len, chunk) ==
    IF Len(self.buf) < len
    THEN extended(self, len, read_exact(self.read, len - Len(self.buf), chunk))
    ELSE [self |-> self, ok |-> TRUE, io |-> FALSE]

\* lines 79-85 on the outcome v of read_vint
tag_id_from(self, v) ==
    CASE v.st = "err" ->
           [self |-> self, err |-> Failure("CorruptedFileData", "ReadVintOverflow"),
            ok |-> FALSE, value |-> 0]
      [] v.st = "some" ->
           [self |-> advance(self, v.length), err |-> EndOfSequence,
            ok |-> TRUE, value |-> v.value + 2 ^ (7 * v.length)]
      [] OTHER ->
           [self |-> self,
            err |-> Failure("CorruptedFileData",
                            "Expected tag id, but reached end of source."),
            ok |-> FALSE, value |-> 0]

\* lines 79-85 stepping over the byte that could not be decoded
tag_id_skipping(self, v) ==
    IF v.st = "some" THEN tag_id_from(self, v)
    ELSE [self |-> advance(self, 1),
          err |-> Failure("CorruptedFileData", "ReadVintOverflow"),
          ok |-> FALSE, value |-> 0]

tag_id_at_front(self) == tag_id_from(self, read_vint(self.buf))

tag_id_at_front_skipping(self) == tag_id_skipping(self, read_vint(self.buf))

\* read_tag_id that steps over the byte it could not decode
read_tag_id_skipping(self, chunk) ==
    tag_id_at_front_skipping(ensure_data_read(self, 8, chunk).self)

\* line 78 on the outcome e of ensure_data_read: `?` passes the read error
\* on, the bool is dropped
tag_id_after(e) ==
    IF e.io THEN [self |-> e.self, err |-> ReadError, ok |-> FALSE, value |-> 0]
    ELSE tag_id_at_front(e.self)

read_tag_id(self, chunk) == tag_id_after(ensure_data_read(self, 8, chunk))

\* lines 90-96 on the outcome v of read_vint
tag_size_from(self, v) ==
    CASE v.st = "err" ->
           [self |-> self, err |-> Failure("CorruptedFileData", "ReadVintOverflow"),
            ok |-> FALSE, size |-> Unknown]
      [] v.st = "some" ->
           [self |-> advance(self, v.length), err |-> EndOfSequence,
            ok |-> TRUE, size |-> ebml_size(v.value, v.length)]
      [] OTHER ->
           [self |-> self,
            err |-> Failure("CorruptedFileData",
                            "Expected tag size, but reached end of source."),
            ok |-> FALSE, size |-> Unknown]

tag_size_at_front(self) == tag_size_from(self, read_vint(self.buf))

\* line 89 on the outcome e of ensure_data_read: `?` passes the read error
\* on, the bool is dropped
tag_size_after(e) ==
    IF e.io THEN [self |-> e.self, err |-> ReadError, ok |-> FALSE, size |-> Unknown]
    ELSE tag_size_at_front(e.self)

read_tag_size(self, chunk) == tag_size_after(ensure_data_read(self, 8, chunk))

\* line 103
taken(g) == [self |-> g.self, ok |-> TRUE, data |-> g.data, err |-> EndOfSequence]

\* lines 100-103 on the outcome e of ensure_data_read
tag_data_from(e, size) ==
    IF e.io
    THEN [self |-> e.self, ok |-> FALSE, data |-> <<>>, err |-> ReadError]
    ELSE IF ~e.ok
    THEN [self |-> e.self, ok |-> FALSE, data |-> <<>>,
          err |-> Failure("CorruptedFileData",
                          "reached end of file but expecting more data")]
    ELSE taken(advance_get(e.self, size))

read_tag_data(self, size, chunk) ==
    tag_data_from(ensure_data_read(self, size, chunk), size)

\* is_child without the Unknown-size check
is_child_always(stack, tag_id) == TRUE

\* is_child asked of the specification for Known sizes too
is_child_by_spec(stack, tag_id) ==
    IF stack = <<>> THEN TRUE
    ELSE IF Last(stack).type = "NextTag" THEN TRUE
    ELSE is_child(Last(stack).tag.id, tag_id)

\* is_child of read_tag (lines 112-120)
is_child_of_top(stack, tag_id) ==
    IF stack = <<>> THEN TRUE
    ELSE IF Last(stack).type = "NextTag" THEN TRUE
    ELSE Last(stack).size # Unknown \/ is_child(Last(stack).tag.id, tag_id)

\* lines 146-147 on the outcome a of arr_to_u64
unsigned_int_from(tag_id, a) ==
    IF a.ok THEN [ok |-> TRUE, tag |-> get_unsigned_int_tag(tag_id, a.val)]
    ELSE [ok |-> FALSE, tag |-> Failure("CorruptedTagData", "arr_to_u64")]

\* the leaf value of lines 143-164 for the types the example specification has
decode_leaf(tag_id, raw_data) ==
    IF get_tag_data_type(tag_id) = "UnsignedInt"
    THEN unsigned_int_from(tag_id, arr_to_u64(raw_data))
    ELSE [ok |-> TRUE, tag |-> get_raw_tag(tag_id, raw_data)]

\* the master branch with the displaced entry left on the stack
read_master_keeping(self, tag_id, size, child) ==
    IF child
    THEN [self |-> [self EXCEPT !.tag_stack =
                        Append(@, EndTag(get_master_tag(tag_id, "End"), size,
                                         current_offset(self)))],
          res |-> get_master_tag(tag_id, "Start")]
    ELSE [self |-> [self EXCEPT !.tag_stack =
                        Append(Append(@,
                                      EndTag(get_master_tag(tag_id, "End"), size,
                                             current_offset(self))),
                               NextTag(get_master_tag(tag_id, "Start")))],
          res |-> into_inner(Last(self.tag_stack))]

\* the master branch with the Deferred-next entry pushed under the new
\* Pending-end entry
read_master_deferred_below(self, tag_id, size, child) ==
    IF child
    THEN [self |-> [self EXCEPT !.tag_stack =
                        Append(@, EndTag(get_master_tag(tag_id, "End"), size,
                                         current_offset(self)))],
          res |-> get_master_tag(tag_id, "Start")]
    ELSE [self |-> [self EXCEPT !.tag_stack =
                        Append(Append(Front(@),
                                      NextTag(get_master_tag(tag_id, "Start"))),
                               EndTag(get_master_tag(tag_id, "End"), size,
                                      current_offset(self)))],
          res |-> into_inner(Last(self.tag_stack))]

\* the master branch of read_tag (lines 121-135)
read_master(self, tag_id, size, child) ==
    IF child
    THEN [self |-> [self EXCEPT !.tag_stack =
                        Append(@, EndTag(get_master_tag(tag_id, "End"), size,
                                         current_offset(self)))],
          res |-> get_master_tag(tag_id, "Start")]
    ELSE [self |-> [self EXCEPT !.tag_stack =
                        Append(Append(Front(@),
                                      EndTag(get_master_tag(tag_id, "End"), size,
                                             current_offset(self))),
                               NextTag(get_master_tag(tag_id, "Start")))],
          res |-> into_inner(Last(self.tag_stack))]

\* lines 165-169 with the displaced entry taken off the stack before the
\* payload is decoded
leaf_result_taking_first(self, t, child) ==
    IF child THEN [self |-> self, res |-> t.tag]
    ELSE IF ~t.ok
    THEN [self |-> [self EXCEPT !.tag_stack = Front(@)], res |-> t.tag]
    ELSE [self |-> [self EXCEPT !.tag_stack = Append(Front(@), NextTag(t.tag))],
          res |-> into_inner(Last(self.tag_stack))]

\* lines 165-169 on the decoded leaf t
leaf_result(self, t, child) ==
    IF ~t.ok THEN [self |-> self, res |-> t.tag]
    ELSE IF child THEN [self |-> self, res |-> t.tag]
    ELSE [self |-> [self EXCEPT !.tag_stack = Append(Front(@), NextTag(t.tag))],
          res |-> into_inner(Last(self.tag_stack))]

\* lines 142-169 on the outcome d of read_tag_data
leaf_from(d, tag_id, child) ==
    IF ~d.ok THEN [self |-> d.self, res |-> d.err]
    ELSE leaf_result(d.self, decode_leaf(tag_id, d.data), child)

\* the leaf branch with the Unknown size taken as an empty payload
read_leaf_unsized(self, tag_id, size, child, chunk) ==
    leaf_from(read_tag_data(self, size.n, chunk), tag_id, child)

\* the leaf branch of read_tag (lines 136-170)
read_leaf(self, tag_id, size, child, chunk) ==
    IF ~size.known
    THEN [self |-> self,
          res |-> Failure("CorruptedFileData", "Unknown size for primitive not allowed")]
    ELSE leaf_from(read_tag_data(self, size.n, chunk), tag_id, child)

\* lines 111-170 on the outcome s of read_tag_size
tag_from_size(tag_id, s, chunk) ==
    IF ~s.ok THEN [self |-> s.self, res |-> s.err]
    ELSE IF get_tag_data_type(tag_id) = "Master"
    THEN read_master(s.self, tag_id, s.size, is_child_of_top(s.self.tag_stack, tag_id))
    ELSE read_leaf(s.self, tag_id, s.size, is_child_of_top(s.self.tag_stack, tag_id),
                   chunk)

\* lines 108-170 on the outcome i of read_tag_id
tag_from_id(i, chunk) ==
    IF ~i.ok THEN [self |-> i.self, res |-> i.err]
    ELSE tag_from_size(i.value, read_tag_size(i.self, chunk), chunk)

read_tag(self, chunk) == tag_from_id(read_tag_id(self, chunk), chunk)

\* step 1 with > for >= in the offset check
owed_past_bound(self) ==
    IF self.tag_stack = <<>> THEN FALSE
    ELSE IF Last(self.tag_stack).type = "NextTag" THEN TRUE
    ELSE /\ Last(self.tag_stack).size.known
         /\ current_offset(self) >
                Last(self.tag_stack).start + Last(self.tag_stack).size.n

\* step 1 of next() (lines 175-187): whether the top of the stack is returned
\* without reading
owed(self) ==
    IF self.tag_stack = <<>> THEN FALSE
    ELSE IF Last(self.tag_stack).type = "NextTag" THEN TRUE
    ELSE /\ Last(self.tag_stack).size.known
         /\ current_offset(self) >=
                Last(self.tag_stack).start + Last(self.tag_stack).size.n

\* lines 188-200 on the outcome e of ensure_data_read(1)
next_from_source(e, chunk) ==
    IF e.io THEN [self |-> e.self, res |-> ReadError]
    ELSE IF ~e.ok
    THEN IF e.self.tag_stack # <<>>
         THEN [self |-> [e.self EXCEPT !.tag_stack = Front(@)],
               res |-> into_inner(Last(e.self.tag_stack))]
         ELSE [self |-> e.self, res |-> EndOfSequence]
    ELSE read_tag(e.self, chunk)

\* next() with the owed entry read by last() and left on the stack
next_without_pop(self, chunk) ==
    IF owed(self)
    THEN [self |-> self, res |-> Last(self.tag_stack).tag]
    ELSE next_from_source(ensure_data_read(self, 1, chunk), chunk)

next(self, chunk) ==
    IF owed(self)
    THEN [self |-> [self EXCEPT !.tag_stack = Front(@)],
          res |-> Last(self.tag_stack).tag]
    ELSE next_from_source(ensure_data_read(self, 1, chunk), chunk)

\* line 206: next.map(move |it| (it, read))
unfolded(r) == [self |-> r.self, some |-> r.res.kind # "None", item |-> r.res]

\* line 206 ending the stream at the first item that is not a tag
unfolded_until_error(r) ==
    [self |-> r.self, some |-> r.res.kind \in TagKinds, item |-> r.res]

\* the closure ending the stream at the first item that is not a tag
unfold_until_error(self, chunk) == unfolded_until_error(next(self, chunk))

\* the closure into_stream() hands to unfold (lines 204-207)
unfold_step(self, chunk) == unfolded(next(self, chunk))

-----------------------------------------------------------------------------
(* Inputs: whole fragments, then at most one malformed or truncated tail *)

SizeUnknown == 255  \* 0xFF, the one-byte Unknown sentinel

Body ==
    { <<MasterA, 128 + 0>>, <<MasterA, 128 + 3>>, <<MasterA, 128 + 5>>,
      <<MasterB, 128 + 3>>,
      <<MasterA, SizeUnknown>>, <<MasterB, SizeUnknown>>,
      <<UIntLeaf, 128 + 1, 5>> }

Tails ==
    { <<>>,
      <<0>>,                     \* a leading byte with no marker bit
      <<UIntLeaf, SizeUnknown>>, \* a leaf that declares the Unknown size
      <<64>>,                    \* a two-byte identifier cut after its first byte
      <<UIntLeaf, 64>>,          \* a two-byte size cut after its first byte
      <<UIntLeaf, 128 + 2, 5>>,  \* a two-byte payload cut after its first byte
      <<UIntLeaf, 128 + 7, 0, 0, 0, 0, 0, 0, 5>> }   \* a whole leaf of 7 bytes

RECURSIVE Flatten(_)
Flatten(fs) == IF fs = <<>> THEN <<>> ELSE Head(fs) \o Flatten(Tail(fs))

Inputs ==
    { Flatten(fs) \o t : fs \in UNION { [1..k -> Body] : k \in 0..MaxFrags },
                         t \in Tails }

\* what the source may hand over per poll: a byte, a few, all that is asked
Chunks == {1, 3, MaxChunk}

\* n calls of next(), each result r in front of the later ones
RECURSIVE Run(_, _, _)
RunFrom(r, chunk, n) == <<r.res>> \o Run(r.self, chunk, n - 1)
Run(self, chunk, n) ==
    IF n = 0 THEN <<>> ELSE RunFrom(next(self, chunk), chunk, n)

-----------------------------------------------------------------------------
(* The state machine *)

Self == [read |-> read, buf |-> buf, offset |-> offset, tag_stack |-> tag_stack]

Store(self) ==
    /\ read' = self.read
    /\ buf' = self.buf
    /\ offset' = self.offset
    /\ tag_stack' = self.tag_stack

Calls == Len(results) + Len(items)

Init ==
    /\ input \in Inputs
    /\ whole = Run(new(input), Len(input) + 1, MaxCalls)
    /\ read = input
    /\ buf = <<>>
    /\ offset = 0
    /\ tag_stack = <<>>
    /\ results = <<>>
    /\ trail = <<>>
    /\ items = <<>>
    /\ mode = "direct"

\* next() returned r to the caller
Returned(r) ==
    /\ Store(r.self)
    /\ results' = Append(results, r.res)
    /\ trail' = Append(trail, [before |-> Self, after |-> r.self])

\* the caller awaits next()
CallNext ==
    /\ mode = "direct"
    /\ Calls < MaxCalls
    /\ \E chunk \in Chunks : Returned(next(Self, chunk))
    /\ UNCHANGED <<input, whole, items, mode>>

\* the caller turns a newly made iterator into a stream
IntoStream ==
    /\ mode = "direct"
    /\ results = <<>>
    /\ mode' = "stream"
    /\ UNCHANGED <<input, whole, read, buf, offset, tag_stack, results, trail, items>>

\* the stream got u from its closure: an item, or the end
Yielded(u) ==
    /\ Store(u.self)
    /\ items' = IF u.some THEN Append(items, u.item) ELSE items
    /\ mode' = IF u.some THEN "stream" ELSE "ended"

\* the caller polls the stream for its next item
PollStream ==
    /\ mode = "stream"
    /\ Calls < MaxCalls
    /\ \E chunk \in Chunks : Yielded(unfold_step(Self, chunk))
    /\ UNCHANGED <<input, whole, results, trail>>

Next == CallNext \/ IntoStream \/ PollStream

Spec == Init /\ [][Next]_vars

\* next() returned a read error to the caller, who gives the iterator up
ReturnedBroken(r) ==
    /\ r.res = ReadError
    /\ Store(r.self)
    /\ results' = Append(results, r.res)
    /\ trail' = Append(trail, [before |-> Self, after |-> r.self])
    /\ mode' = "failed"

\* the iterator on a source that fails behind k more bytes
faulty(self, k) ==
    [self EXCEPT !.read = SubSeq(@, 1, k) \o <<Fault>> \o SubSeq(@, k + 1, Len(@))]

\* the caller awaits next() and the source fails during the call
CallNextBroken ==
    /\ mode = "direct"
    /\ Calls < MaxCalls
    /\ \E k \in 0..Len(read) : \E chunk \in Chunks :
          ReturnedBroken(next(faulty(Self, k), chunk))
    /\ UNCHANGED <<input, whole, items>>

NextIo == CallNext \/ IntoStream \/ PollStream \/ CallNextBroken

\* a whole unsigned-int leaf of 9 bytes, one more than arr_to_u64 takes
LongLeaf == <<UIntLeaf, 128 + 9, 0, 0, 0, 0, 0, 0, 0, 0, 5>>

\* the inputs for the runs on a source that can fail: one body fragment
\* less, and the leaf that cannot be decoded among the tails
InputsIo ==
    { Flatten(fs) \o t : fs \in UNION { [1..k -> Body] : k \in 0..(MaxFrags - 1) },
                         t \in Tails \cup {LongLeaf} }

InitIo ==
    /\ input \in InputsIo
    /\ whole = Run(new(input), Len(input) + 1, MaxCalls)
    /\ read = input
    /\ buf = <<>>
    /\ offset = 0
    /\ tag_stack = <<>>
    /\ results = <<>>
    /\ trail = <<>>
    /\ items = <<>>
    /\ mode = "direct"

\* the iterator on a source that can fail
SpecIo == InitIo /\ [][NextIo]_vars

-----------------------------------------------------------------------------
(* What the properties below speak about *)

Before(i) == trail[i].before
After(i) == trail[i].after

\* the bytes of the source that call i finds not yet consumed
Remaining(i) ==
    IF Before(i).offset >= Len(input) THEN <<>>
    ELSE SubSeq(input, Before(i).offset + 1, Len(input))

IsMasterId(b) == b \in {MasterA, MasterB}

\* a sequence of whole tags with one-byte headers and Known sizes that fit
RECURSIVE WellFormedKnown(_)
WellFormedKnown(bytes) ==
    \/ bytes = <<>>
    \/ /\ Len(bytes) >= 2
       /\ bytes[1] \in {MasterA, MasterB, UIntLeaf}
       /\ bytes[2] >= 128 /\ bytes[2] < SizeUnknown
       /\ LET n == bytes[2] - 128 IN
          /\ Len(bytes) >= 2 + n
          /\ IsMasterId(bytes[1]) => WellFormedKnown(SubSeq(bytes, 3, 2 + n))
          /\ WellFormedKnown(SubSeq(bytes, 3 + n, Len(bytes)))

\* the source has ended and every byte of it was consumed by whole tags
CleanEnd(i) == Before(i).read = <<>> /\ Before(i).offset = Len(input)

\* a Pending-end entry whose byte count is used up at offset `off`
Closable(entry, off) ==
    entry.type = "EndTag" /\ entry.size.known /\ off >= entry.start + entry.size.n

\* call i finds nothing owed on the stack and goes on to the source
GoesToSource(i) ==
    \/ Before(i).tag_stack = <<>>
    \/ /\ Last(Before(i).tag_stack).type = "EndTag"
       /\ ~Closable(Last(Before(i).tag_stack), Before(i).offset)

\* the open masters after a sequence of results; <<0>> once an End closes
\* anything but the innermost open Start
RECURSIVE OpenAfter(_, _)
OpenAfter(open, rs) ==
    IF rs = <<>> \/ open = <<0>> THEN open
    ELSE LET r == Head(rs) IN
         CASE r.kind = "Start" -> OpenAfter(Append(open, r.id), Tail(rs))
           [] r.kind = "End" ->
                IF open # <<>> /\ Last(open) = r.id
                THEN OpenAfter(Front(open), Tail(rs))
                ELSE <<0>>
           [] OTHER -> OpenAfter(open, Tail(rs))

-----------------------------------------------------------------------------
(* C1: one Known-size MasterA holding one UnsignedInt 5 *)

ExampleInput == <<MasterA, 128 + 3, UIntLeaf, 128 + 1, 5>>

ExampleResults ==
    << get_master_tag(MasterA, "Start"),
       get_unsigned_int_tag(UIntLeaf, 5),
       get_master_tag(MasterA, "End"),
       EndOfSequence >>

\* C1: on the input [MasterA(Known){UnsignedInt 5}] the calls of next() return
\* MasterA-Start, UnsignedInt(5), MasterA-End, and the fourth returns None.
C1_ExampleSequence ==
    (mode = "direct" /\ input = ExampleInput) =>
        \A i \in 1..Min(4, Len(results)) : results[i] = ExampleResults[i]

-----------------------------------------------------------------------------
(* C2: Known sizes: nesting, the call that returns End, the byte spans *)

C2_Nested == OpenAfter(<<>>, results) # <<0>>

\* every tag is read inside the span of every master open around it
C2_Spans ==
    \A i \in 1..Len(results) :
        /\ \A k \in 1..Len(Before(i).tag_stack) :
              LET e == Before(i).tag_stack[k] IN
              e.type = "EndTag" =>
                  /\ e.start <= Before(i).offset
                  /\ After(i).offset <= e.start + e.size.n
        /\ results[i].kind = "Start" =>
              LET e == Last(After(i).tag_stack) IN
              /\ e.start = After(i).offset
              /\ \A k \in 1..Len(Before(i).tag_stack) :
                    e.start + e.size.n <=
                        Before(i).tag_stack[k].start + Before(i).tag_stack[k].size.n

\* an End tag is returned only at its own start + size
C2_EndAtBound ==
    \A i \in 1..Len(results) :
        results[i].kind = "End" =>
            LET e == Last(Before(i).tag_stack) IN
            /\ results[i] = e.tag
            /\ Before(i).offset = e.start + e.size.n
            /\ After(i).offset = Before(i).offset
            /\ After(i).tag_stack = Front(Before(i).tag_stack)

\* the call made with the offset at the bound of the innermost open master
\* returns its End tag
C2_InnermostClosedFirst ==
    \A i \in 1..Len(results) :
        (Before(i).tag_stack # <<>> /\
         Closable(Last(Before(i).tag_stack), Before(i).offset)) =>
            results[i] = Last(Before(i).tag_stack).tag

\* the call made with the offset at the bound of any open master returns
\* that master's End tag
C2_AnyClosedFirst ==
    \A i \in 1..Len(results) :
        \A k \in 1..Len(Before(i).tag_stack) :
            Closable(Before(i).tag_stack[k], Before(i).offset) =>
                results[i] = Before(i).tag_stack[k].tag

\* C2 as amended: for a well-formed input with Known sizes the Start/End
\* pairs are nested, every tag lies in the span [start, start+size) of the
\* masters open around it, and a master's End tag is returned by the first
\* call made once the offset has reached its start + size and every master
\* opened inside it has been closed.
C2_KnownSpans ==
    (mode = "direct" /\ WellFormedKnown(input)) =>
        /\ C2_Nested
        /\ C2_Spans
        /\ C2_EndAtBound
        /\ C2_InnermostClosedFirst

\* C2 as stated: ... each master's End tag is returned by the first call made
\* once current_offset() has reached start + size of that master.
C2_AsStated ==
    (mode = "direct" /\ WellFormedKnown(input)) =>
        /\ C2_Nested
        /\ C2_Spans
        /\ C2_EndAtBound
        /\ C2_AnyClosedFirst

\* two masters whose spans end at the same byte have both been closed
C2_Witness ==
    /\ mode = "direct"
    /\ WellFormedKnown(input)
    /\ Len(results) >= 5
    /\ results[1].kind = "Start" /\ results[2].kind = "Start"
    /\ results[3].kind = "UnsignedInt"
    /\ results[4].kind = "End" /\ results[5].kind = "End"
    /\ Before(4).offset = Before(5).offset

-----------------------------------------------------------------------------
(* C3, C4: the end of the source *)

\* C3: the first call that finds the source at its clean end, every byte
\* consumed and no container open, returns None.
C3_CleanEndIsNone ==
    (mode = "direct" /\ WellFormedKnown(input)) =>
        \A i \in 1..Len(results) :
            (/\ CleanEnd(i)
             /\ Before(i).tag_stack = <<>>
             /\ \A j \in 1..(i - 1) : results[j].kind \in TagKinds) =>
                results[i].kind = "None"

\* call i finds the source cleanly ended and n >= 1 Pending-end entries,
\* none of them closable by offset
DrainStarts(i) ==
    /\ CleanEnd(i)
    /\ Before(i).tag_stack # <<>>
    /\ \A k \in 1..Len(Before(i).tag_stack) :
          /\ Before(i).tag_stack[k].type = "EndTag"
          /\ ~Closable(Before(i).tag_stack[k], Before(i).offset)

\* C4: when the source cleanly ends with N containers open, the next N calls
\* return their End tags, innermost first, and the call after returns None.
C4_Draining ==
    mode = "direct" =>
        \A i \in 1..Len(results) :
            DrainStarts(i) =>
                LET stack == Before(i).tag_stack
                    n == Len(stack)
                IN \A k \in 0..n :
                      i + k <= Len(results) =>
                          results[i + k] =
                              IF k < n THEN stack[n - k].tag ELSE EndOfSequence

-----------------------------------------------------------------------------
(* C5: closing an Unknown-size container *)

\* the tag at the front of Remaining(i), for one-byte headers and a payload
\* the source holds in full
FrontTag(rem) ==
    IF IsMasterId(rem[1]) THEN get_master_tag(rem[1], "Start")
    ELSE LET payload == SubSeq(rem, 3, 2 + (rem[2] - 128)) IN
         IF rem[1] = UIntLeaf
         THEN get_unsigned_int_tag(rem[1], BigEndian(0, payload))
         ELSE get_raw_tag(rem[1], payload)

FrontLength(rem) == IF IsMasterId(rem[1]) THEN 2 ELSE 2 + (rem[2] - 128)

\* call i reads, under an innermost container of Unknown size, a whole tag
\* that is no valid child of it
Displaces(i) ==
    /\ GoesToSource(i)
    /\ Before(i).tag_stack # <<>>
    /\ ~Last(Before(i).tag_stack).size.known
    /\ LET rem == Remaining(i) IN
       /\ Len(rem) >= 2
       /\ rem[1] >= 128 /\ rem[2] >= 128
       /\ ~is_child(Last(Before(i).tag_stack).tag.id, rem[1])
       /\ ~IsMasterId(rem[1]) =>
             (rem[2] # SizeUnknown /\ Len(rem) >= 2 + (rem[2] - 128))

\* C5: the call that reads a tag that is no valid child of the innermost
\* Unknown-size container returns that container's End tag; the next call
\* returns the displaced tag without touching the source, buffer or offset,
\* once, and the call after it goes on behind the displaced tag's bytes.
C5_UnknownClosure ==
    mode = "direct" =>
        \A i \in 1..Len(results) :
            Displaces(i) =>
                /\ results[i] = Last(Before(i).tag_stack).tag
                /\ results[i].kind = "End"
                /\ After(i).offset = Before(i).offset + FrontLength(Remaining(i))
                /\ i + 1 <= Len(results) =>
                      /\ results[i + 1] = FrontTag(Remaining(i))
                      /\ After(i + 1).read = Before(i + 1).read
                      /\ After(i + 1).buf = Before(i + 1).buf
                      /\ After(i + 1).offset = Before(i + 1).offset
                      /\ \A k \in 1..Len(After(i + 1).tag_stack) :
                            After(i + 1).tag_stack[k].type = "EndTag"

\* a master and then a leaf have each closed an Unknown-size container
C5_Witness ==
    /\ mode = "direct"
    /\ \E i, j \in 1..Len(results) :
          /\ i + 1 < j /\ j + 1 <= Len(results)
          /\ Displaces(i) /\ results[i + 1].kind = "Start"
          /\ Displaces(j) /\ results[j + 1].kind = "UnsignedInt"

-----------------------------------------------------------------------------
(* C6: the chunks the source delivers *)

\* C6: whatever chunks the source delivers during each call, the calls of
\* next() return what they return when the source delivers the input at once.
C6_ChunkIndependent ==
    mode = "direct" =>
        \A i \in 1..Len(results) : results[i] = whole[i]

\* a well-formed input of several tags has been read to its last byte
C6_Witness ==
    /\ mode = "direct"
    /\ WellFormedKnown(input)
    /\ Len(input) >= 7
    /\ read = <<>>
    /\ offset = Len(input)
    /\ Len(results) >= 3

-----------------------------------------------------------------------------
(* C7: the source ends inside a tag header *)

\* the source ends inside the identifier or the size that call i reads
PartialHeader(i) ==
    /\ GoesToSource(i)
    /\ LET rem == Remaining(i) IN
       /\ rem # <<>>
       /\ rem[1] # 0
       /\ LET l == VintLength(rem[1]) IN
          \/ l > Len(rem)
          \/ /\ Len(rem) > l
             /\ rem[l + 1] # 0
             /\ VintLength(rem[l + 1]) > Len(rem) - l

\* C7: a call that finds the source ending inside a tag identifier or a tag
\* size returns a CorruptedFileData error, never a tag.
C7_PartialHeaderIsError ==
    mode = "direct" =>
        \A i \in 1..Len(results) :
            PartialHeader(i) => results[i].kind = "CorruptedFileData"

-----------------------------------------------------------------------------
(* C8: a leaf of Unknown size *)

UnknownSizedLeaf(i) ==
    /\ GoesToSource(i)
    /\ LET rem == Remaining(i) IN
       /\ Len(rem) >= 2
       /\ rem[1] >= 128
       /\ ~IsMasterId(rem[1])
       /\ rem[2] = SizeUnknown

\* C8: reading a non-master tag with the Unknown size returns the
\* CorruptedFileData error, consumes the two header bytes and no payload, and
\* leaves the stack as it was.
C8_UnknownLeafIsError ==
    mode = "direct" =>
        \A i \in 1..Len(results) :
            UnknownSizedLeaf(i) =>
                /\ results[i] = Failure("CorruptedFileData",
                                        "Unknown size for primitive not allowed")
                /\ After(i).offset = Before(i).offset + 2
                /\ After(i).tag_stack = Before(i).tag_stack

\* a leaf of Unknown size was read inside an open container
C8_Witness ==
    /\ mode = "direct"
    /\ \E i \in 1..Len(results) :
          UnknownSizedLeaf(i) /\ Before(i).tag_stack # <<>>

-----------------------------------------------------------------------------
(* C9: a malformed VINT where an identifier starts *)

MalformedHeader(i) ==
    /\ GoesToSource(i)
    /\ Remaining(i) # <<>>
    /\ Remaining(i)[1] = 0

\* C9: a call that finds a byte with no marker bit where a tag identifier
\* starts returns a CorruptedFileData error and leaves the offset, the stack
\* and the unconsumed bytes as they were.
C9_MalformedVintIsError ==
    mode = "direct" =>
        \A i \in 1..Len(results) :
            MalformedHeader(i) =>
                /\ results[i].kind = "CorruptedFileData"
                /\ After(i).offset = Before(i).offset
                /\ After(i).tag_stack = Before(i).tag_stack
                /\ SubSeq(After(i).buf \o After(i).read, 1, Len(Remaining(i)))
                      = Remaining(i)

\* the malformed byte was met after some tags, inside an open container
C9_Witness ==
    /\ mode = "direct"
    /\ \E i \in 2..Len(results) :
          MalformedHeader(i) /\ Before(i).tag_stack # <<>>

-----------------------------------------------------------------------------
(* C10: the stream of into_stream() *)

\* C10: the stream yields, one per pull, what the calls of next() return on
\* the same input, and ends at the first pull whose next() returns None.
C10_StreamAsDirect ==
    mode \in {"stream", "ended"} =>
        /\ Len(items) <= Len(whole)
        /\ \A j \in 1..Len(items) : items[j] = whole[j] /\ whole[j].kind # "None"
        /\ mode = "ended" => whole[Len(items) + 1].kind = "None"

\* the stream has yielded tags and then ended
C10_Witness ==
    /\ mode = "ended"
    /\ Len(items) >= 2
    /\ \A j \in 1..Len(items) : items[j].kind \in TagKinds

-----------------------------------------------------------------------------
(* C11: what ensure_data_read answers *)

\* the bytes in the buffer of `self` that the source delivered and that are
\* not consumed yet (the rest of the buffer is zeros put there by extend)
Delivered(self) == Len(input) - Len(self.read) - self.offset

\* C11: between two calls of next(), ensure_data_read(n) answers true only
\* with at least n delivered, unconsumed bytes in the buffer, and answers
\* false whenever the source ends before n such bytes can be had.
C11_EnsureTruthful ==
    mode = "direct" =>
        \A n \in 1..8 : \A chunk \in Chunks :
            LET e == ensure_data_read(Self, n, chunk) IN
            /\ e.ok => Delivered(e.self) >= n
            /\ Len(input) - offset < n => ~e.ok

-----------------------------------------------------------------------------
(* C12: the source ends inside a leaf's payload *)

\* call i reads a leaf whose Known size is larger than what the source holds
\* behind its header
ShortPayload(i) ==
    /\ GoesToSource(i)
    /\ LET rem == Remaining(i) IN
       /\ Len(rem) >= 2
       /\ rem[1] >= 128
       /\ ~IsMasterId(rem[1])
       /\ rem[2] >= 128 /\ rem[2] # SizeUnknown
       /\ Len(rem) < 2 + (rem[2] - 128)

\* C12: a call that reads a leaf declaring more payload bytes than the source
\* still holds returns the CorruptedFileData error "reached end of file but
\* expecting more data", never a leaf.
C12_ShortPayloadIsError ==
    mode = "direct" =>
        \A i \in 1..Len(results) :
            ShortPayload(i) =>
                results[i] = Failure("CorruptedFileData",
                                     "reached end of file but expecting more data")

-----------------------------------------------------------------------------
(* C13: Start and End tags pair up on any input *)

\* the identifiers of the masters the stack holds open whose Start tag has
\* been returned
RECURSIVE StartedOn(_)
StartedOn(stack) ==
    IF stack = <<>> THEN <<>>
    ELSE IF Last(stack).type = "NextTag"
         THEN IF Last(stack).tag.kind = "Start"
              THEN StartedOn(Front(Front(stack)))
              ELSE StartedOn(Front(stack))
         ELSE Append(StartedOn(Front(stack)), Last(stack).tag.id)

\* C13: on any input every End tag returned closes the most recently
\* returned Start tag not yet closed, the masters left open are the ones on
\* the stack, and when None is returned after tags only, every Start has had
\* its End.
C13_PairsNest ==
    mode = "direct" =>
        /\ OpenAfter(<<>>, results) # <<0>>
        /\ OpenAfter(<<>>, results) = StartedOn(tag_stack)
        /\ \A i \in 1..Len(results) :
              (/\ results[i].kind = "None"
               /\ \A j \in 1..(i - 1) : results[j].kind \in TagKinds)
                  => OpenAfter(<<>>, SubSeq(results, 1, i)) = <<>>

\* on an input that is not well-formed, containers were closed by a tag that
\* is no child and by the end of the source, and none is left open
C13_Witness ==
    /\ mode = "direct"
    /\ ~WellFormedKnown(input)
    /\ \E i \in 1..Len(results) : Displaces(i)
    /\ \E i, j \in 1..Len(results) :
          i < j /\ results[i].kind = "End" /\ results[j].kind = "End"
    /\ OpenAfter(<<>>, results) = <<>>

-----------------------------------------------------------------------------
(* C14: which tags are taken as children, and what closes a container *)

\* call i goes to the source and finds a whole tag with a one-byte header
WholeTagAhead(i) ==
    /\ GoesToSource(i)
    /\ LET rem == Remaining(i) IN
       /\ Len(rem) >= 2
       /\ rem[1] >= 128 /\ rem[2] >= 128
       /\ ~IsMasterId(rem[1]) =>
             (rem[2] # SizeUnknown /\ Len(rem) >= 2 + (rem[2] - 128))

\* the child decision as C14 states it, for the tag call i finds
TakenAsChild(i) ==
    \/ Before(i).tag_stack = <<>>
    \/ Last(Before(i).tag_stack).size.known
    \/ is_child(Last(Before(i).tag_stack).tag.id, Remaining(i)[1])

\* call i finds the source at its end and nothing left in the buffer
SourceDrained(i) ==
    /\ Before(i).buf = <<>>
    /\ Before(i).read = <<>>
    /\ After(i).offset = Before(i).offset

\* call i has read a tag behind which the top of the stack was put aside
PutAside(i) ==
    /\ After(i).offset > Before(i).offset
    /\ After(i).tag_stack # <<>>
    /\ Last(After(i).tag_stack).type = "NextTag"

\* C14: a tag read from the source is taken as a child, and returned by the
\* call that reads it, when no container is open or the innermost one has a
\* Known size; under an innermost container of Unknown size exactly when the
\* specification says it is a child. So a Known-size container is closed only
\* at its byte bound or at the end of the source, an Unknown-size container
\* only by a tag that is no child or at the end of the source.
C14_ChildDecision ==
    mode = "direct" =>
        \A i \in 1..Len(results) :
            /\ WholeTagAhead(i) =>
                  IF TakenAsChild(i)
                  THEN /\ results[i] = FrontTag(Remaining(i))
                       /\ Len(After(i).tag_stack) >= Len(Before(i).tag_stack)
                       /\ SubSeq(After(i).tag_stack, 1, Len(Before(i).tag_stack))
                             = Before(i).tag_stack
                  ELSE /\ results[i] = Last(Before(i).tag_stack).tag
                       /\ PutAside(i)
            /\ results[i].kind = "End" =>
                  /\ Before(i).tag_stack # <<>>
                  /\ Last(Before(i).tag_stack).type = "EndTag"
                  /\ results[i] = Last(Before(i).tag_stack).tag
                  /\ IF Last(Before(i).tag_stack).size.known
                     THEN \/ Closable(Last(Before(i).tag_stack), Before(i).offset)
                          \/ SourceDrained(i)
                     ELSE \/ PutAside(i)
                          \/ SourceDrained(i)

\* a tag that the specification does not list as a child was read and
\* returned inside a Known-size container, and another closed an
\* Unknown-size container
C14_Witness ==
    /\ mode = "direct"
    /\ \E i, j \in 1..Len(results) :
          /\ WholeTagAhead(i)
          /\ Before(i).tag_stack # <<>>
          /\ Last(Before(i).tag_stack).size.known
          /\ ~is_child(Last(Before(i).tag_stack).tag.id, Remaining(i)[1])
          /\ results[i] = FrontTag(Remaining(i))
          /\ Displaces(j)
          /\ results[j].kind = "End"

-----------------------------------------------------------------------------
(* C15: step 1 of next() *)

\* C15: a call that finds a Deferred-next entry, or a Pending-end entry of
\* Known size with the offset at or past start + size, on top of the stack
\* pops that entry and returns its tag, leaving the source, the buffer, the
\* offset and the other entries as they were; any other call leaves the stack
\* to steps 2 and 3, which run on it unchanged (compared for the call that has
\* just returned, every call being that one in some state) and never touch an
\* entry below its top.
C15_StepOneFrame ==
    mode = "direct" =>
        \A i \in 1..Len(results) :
            IF GoesToSource(i)
            THEN /\ i = Len(results) =>
                       \E chunk \in Chunks :
                           [self |-> After(i), res |-> results[i]] =
                               next_from_source(
                                   ensure_data_read(Before(i), 1, chunk), chunk)
                 /\ Before(i).tag_stack # <<>> =>
                       /\ Len(After(i).tag_stack) >= Len(Before(i).tag_stack) - 1
                       /\ SubSeq(After(i).tag_stack, 1,
                                 Len(Before(i).tag_stack) - 1)
                             = Front(Before(i).tag_stack)
            ELSE /\ results[i] = Last(Before(i).tag_stack).tag
                 /\ After(i) = [Before(i) EXCEPT !.tag_stack = Front(@)]

\* one call has returned a Deferred-next entry, one a Pending-end entry at
\* its bound with another container open around it, and one has read from
\* the source under a Pending-end entry short of its bound
C15_Witness ==
    /\ mode = "direct"
    /\ \E i, j, k \in 1..Len(results) :
          /\ Before(i).tag_stack # <<>>
          /\ Last(Before(i).tag_stack).type = "NextTag"
          /\ Len(Before(j).tag_stack) >= 2
          /\ Closable(Last(Before(j).tag_stack), Before(j).offset)
          /\ Before(k).tag_stack # <<>>
          /\ GoesToSource(k)
          /\ Last(Before(k).tag_stack).size.known
          /\ results[k].kind \in TagKinds

-----------------------------------------------------------------------------
(* C16: the end of the sequence, once returned *)

\* C16: once a call of next() has returned None, every later call on the
\* same source, which stays at its end, returns None.
C16_EndIsStable ==
    mode = "direct" =>
        \A i, j \in 1..Len(results) :
            (i < j /\ results[i].kind = "None") => results[j].kind = "None"

-----------------------------------------------------------------------------
(* C17: the Deferred-next entry *)

DeferredOnTop(stack) == stack # <<>> /\ Last(stack).type = "NextTag"

\* C17: between two calls only the top entry of the stack can be a
\* Deferred-next entry; the call after the one that left it there returns its
\* tag and pops it without reading, so no call reads a tag from the source
\* with a Deferred-next entry on top.
C17_DeferredNext ==
    /\ \A k \in 1..(Len(tag_stack) - 1) : tag_stack[k].type = "EndTag"
    /\ mode = "direct" =>
          \A i \in 1..Len(results) :
              /\ DeferredOnTop(After(i).tag_stack) =>
                    /\ ~DeferredOnTop(Before(i).tag_stack)
                    /\ i + 1 <= Len(results) =>
                          /\ results[i + 1] = Last(After(i).tag_stack).tag
                          /\ After(i + 1).tag_stack = Front(After(i).tag_stack)
              /\ DeferredOnTop(Before(i).tag_stack) =>
                    /\ After(i).read = Before(i).read
                    /\ After(i).buf = Before(i).buf
                    /\ After(i).offset = Before(i).offset

\* a master put aside inside two open containers was returned by the next
\* call
C17_Witness ==
    /\ mode = "direct"
    /\ \E i \in 1..(Len(results) - 1) :
          /\ DeferredOnTop(After(i).tag_stack)
          /\ Len(After(i).tag_stack) >= 3
          /\ results[i + 1].kind = "Start"

-----------------------------------------------------------------------------
(* C18: what is returned inside an Unknown-size container *)

\* the stack entries of the containers open around the tag call i returns:
\* for a Start tag its own Pending-end entry is left out
Around(i) ==
    IF results[i].kind = "Start" THEN Front(After(i).tag_stack)
    ELSE After(i).tag_stack

\* C18: every Start tag and every leaf that next() returns while the
\* innermost container open around it has Unknown size is a valid child of
\* that container.
C18_ChildOfUnknown ==
    mode = "direct" =>
        \A i \in 1..Len(results) :
            (/\ results[i].kind \in TagKinds \ {"End"}
             /\ Around(i) # <<>>
             /\ Last(Around(i)).type = "EndTag"
             /\ ~Last(Around(i)).size.known)
                => is_child(Last(Around(i)).tag.id, results[i].id)

-----------------------------------------------------------------------------
(* C19: the stack when next() returns an error *)

ErrorKinds == {"ReadError", "CorruptedFileData", "CorruptedTagData"}

\* C19: a call of next() that returns an error - a failed read, corrupted
\* structure or a corrupted payload - had nothing owed on the stack and
\* leaves the stack as it found it.
C19_ErrorsKeepStack ==
    mode \in {"direct", "failed"} =>
        \A i \in 1..Len(results) :
            results[i].kind \in ErrorKinds =>
                /\ GoesToSource(i)
                /\ After(i).tag_stack = Before(i).tag_stack

\* inside an open container one call has met a payload that cannot be
\* decoded and the next a failing source
C19_Witness ==
    /\ mode = "failed"
    /\ \E i \in 2..(Len(results) - 1) :
          /\ results[i].kind = "CorruptedTagData"
          /\ Before(i).tag_stack # <<>>
          /\ results[i + 1].kind = "ReadError"
          /\ After(i + 1).buf # Before(i + 1).buf

====
